---- MODULE Spec2Model ----
(***************************************************************************)
(* Model of src/src/main.rs: an interactive single-track FLAC player.      *)
(*                                                                         *)
(* Three execution contexts share the AtomicBool is_paused:                *)
(*   - the main thread (startup validation, terminal setup, key loop,      *)
(*     cleanup),                                                           *)
(*   - the ctrlc handler thread (one invocation at a time),                *)
(*   - the worker thread running play_music.                               *)
(* Wall-clock time is counted in units of 1/UnitsPerSec second since the   *)
(* worker took start_time; Duration::as_secs truncates to whole seconds.   *)
(***************************************************************************)
EXTENDS Integers, Naturals, Sequences, FiniteSets, TLC

\* ---------------------------------------------------------------- bounds
\* largest number of music files found, and largest number typed
MaxFiles == 1
\* largest number of toggles (pause key presses plus interrupts) in a run
MaxToggles == 3
\* clock units per second
UnitsPerSec == 2
\* longest track, in clock units
MaxDur == 3
\* the clock stops advancing here: late enough for a sample past any total
MaxTime == MaxDur + UnitsPerSec
\* longest track of the progress-bar runs (BarSpec), in whole seconds
MaxTotal == 50

\* ------------------------------------------------------ program constants
\* print_progress_bar: let bar_length = 50;
bar_length == 50

VARIABLES
    \* --- environment of main
    argc,            \* args.len()
    pathExists,      \* sd_card_path.exists()
    nFiles,          \* music_files.len()
    input,           \* the number typed on stdin; negative: not a usize
    \* --- main thread
    mpc,             \* position of main
    exitCode,        \* -1 while running; 0 Ok(()), 1 Err(..), 101 panic
    report,          \* the startup rejection message printed, or "none"
    sinkCreated,     \* the audio Sink exists
    handlerSet,      \* ctrlc::set_handler succeeded
    altScreen,       \* terminal is in the alternate screen
    rawMode,         \* terminal raw mode is enabled
    cursorHidden,    \* cursor is hidden
    sessionEntered,  \* history: all three setup steps have taken effect
    teardownCount,   \* history: completed runs of the cleanup sequence
    key_event,       \* key code read in this loop iteration, or "none"
    paused,          \* main's local `paused` (line 149), FALSE out of scope
    \* --- ctrlc handler thread
    hpc,             \* "idle" or "loaded" (between lines 126 and 127)
    hpaused,         \* the handler's local `paused`, FALSE out of scope
    \* --- shared pause flag
    is_paused,       \* the AtomicBool
    nToggles,        \* history: toggles completed (stores done)
    overlapped,      \* history: some toggle began while another was in flight
    lastStored,      \* history: value written by the latest store
    \* --- worker thread (play_music) and the sink
    wpc,             \* position of the worker
    wErr,            \* why the worker panicked, or "none"
    duration,        \* source.total_duration().unwrap_or(0), in clock units
    clock,           \* clock units since start_time
    wpaused,         \* value of is_paused.load() in this tick (line 41)
    elapsed,         \* start_time.elapsed().as_secs() sampled at line 48
    filled,          \* filled_length of the last bar rendered, -1 if none
    sinkPaused,      \* the sink's paused status
    sinkRemaining,   \* unplayed audio held by the sink, in clock units
    sinkLock         \* holder of the Mutex around the sink, or "free"

envVars == <<argc, pathExists, nFiles, input>>
termVars == <<altScreen, rawMode, cursorHidden, sessionEntered, teardownCount>>
mainVars == <<mpc, exitCode, report, sinkCreated, handlerSet, key_event, paused>>
handlerVars == <<hpc, hpaused>>
flagVars == <<is_paused, nToggles, overlapped, lastStored>>
workerVars == <<wpc, wErr, duration, wpaused, elapsed, filled>>
sinkVars == <<sinkPaused, sinkRemaining, sinkLock>>
vars == <<envVars, termVars, mainVars, handlerVars, flagVars, workerVars,
          sinkVars, clock>>

\* ---------------------------------------------------------------- helpers
\* Duration::as_secs on a span of clock units: whole seconds, truncated
as_secs(units) == units \div UnitsPerSec

\* faulty variant of Negated: the loaded value is stored back unchanged
NegatedKeeps(b) == b

\* !paused, the value both toggles store (lines 127 and 150)
Negated(b) == ~b

\* ---- IEEE 754 binary64 arithmetic, as used by `elapsed as f64 / total as
\* f64` (line 51) and `bar_length as f64 * progress` (line 67). A significand
\* is a sequence <<top, l1, l2, l3, l4>>: an integer part and the 52
\* fraction bits in four limbs of 13 bits, most significant first.
\* f64::MANTISSA_DIGITS
F64_MANTISSA_DIGITS == 53

\* one limb: a quarter of the F64_MANTISSA_DIGITS - 1 fraction bits
Limb == 2 ^ ((F64_MANTISSA_DIGITS - 1) \div 4)

\* one step of the long division by d: the next limb of the quotient and
\* the remainder left
DivStep(r, d) == [q |-> (r * Limb) \div d, r |-> (r * Limb) % d]

\* carries propagated from the last limb up into the integer part
Carry(s) ==
    LET v4 == s[5]
        v3 == s[4] + (v4 \div Limb)
        v2 == s[3] + (v3 \div Limb)
        v1 == s[2] + (v2 \div Limb)
    IN  <<s[1] + (v1 \div Limb), v1 % Limb, v2 % Limb, v3 % Limb, v4 % Limb>>

\* number of binary digits of n > 0
RECURSIVE BitLen(_)
BitLen(n) == IF n <= 1 THEN 1 ELSE 1 + BitLen(n \div 2)

\* least a >= 0 with e * 2^a >= t, for e > 0
RECURSIVE ShiftUp(_, _)
ShiftUp(e, t) == IF e >= t \/ e <= 0 THEN 0 ELSE 1 + ShiftUp(2 * e, t)

\* greatest b >= 0 with e >= t * 2^b, for t > 0
RECURSIVE ShiftDown(_, _)
ShiftDown(e, t) == IF e < 2 * t \/ t <= 0 THEN 0 ELSE 1 + ShiftDown(e, 2 * t)

\* line 51: elapsed as f64 / total as f64 for e, t > 0, rounded to nearest,
\* ties to even: the record [m, sh] stands for the double m * 2^(-sh), with
\* m a significand in [1, 2]
F64Div(e, t) ==
    LET a == ShiftUp(e, t)
        b == ShiftDown(e, t)
        num == e * (2 ^ a)
        den == t * (2 ^ b)
        s1 == DivStep(num - den, den)
        s2 == DivStep(s1.r, den)
        s3 == DivStep(s2.r, den)
        s4 == DivStep(s3.r, den)
        up == \/ 2 * s4.r > den
              \/ (2 * s4.r = den /\ s4.q % 2 = 1)
    IN  [m |-> Carry(<<1, s1.q, s2.q, s3.q, s4.q + (IF up THEN 1 ELSE 0)>>),
         sh |-> a - b]

\* line 67: (c as f64 * x) as usize for 0 < c < Limb and x < Limb: the exact
\* product is rounded to F64_MANTISSA_DIGITS significant bits (nearest, ties
\* to even) and the double is then truncated towards zero
F64MulToUsize(c, x) ==
    LET p == Carry(<<x.m[1] * c, x.m[2] * c, x.m[3] * c, x.m[4] * c,
                     x.m[5] * c>>)
        \* bits beyond the F64_MANTISSA_DIGITS most significant ones
        d == BitLen(p[1]) - 1
        low == p[5] % (2 ^ d)
        odd == (p[5] \div (2 ^ d)) % 2 = 1
        up == \/ 2 * low > 2 ^ d
              \/ (2 * low = 2 ^ d /\ low > 0 /\ odd)
        r == Carry(<<p[1], p[2], p[3], p[4],
                     p[5] - low + (IF up THEN 2 ^ d ELSE 0)>>)
    IN  IF x.sh >= 0
          THEN r[1] \div (2 ^ x.sh)
          ELSE r[1] * (2 ^ (-x.sh)) + (r[2] \div (Limb \div (2 ^ (-x.sh))))

\* print_progress_bar line 67: (bar_length as f64 * progress) as usize with
\* progress = elapsed as f64 / total as f64 (line 51); 0.0 is exact
filled_length(e, t) ==
    IF e = 0 THEN 0 ELSE F64MulToUsize(bar_length, F64Div(e, t))

\* line 67 over every sample and total the bounds allow, computed once
rendered_length ==
    [t \in 1..MaxTotal |->
        [e \in 0..(MaxTotal + MaxTime) |-> filled_length(e, t)]]

\* the process is alive: main has neither returned nor panicked
Alive == mpc # "exited"

\* toggles begun so far: completed, in flight, or a 'p' key read and pending
Started ==
    nToggles + (IF hpc = "loaded" THEN 1 ELSE 0)
             + (IF key_event = "p" THEN 1 ELSE 0)

\* main returns or panics with the given code
Exit(code) ==
    /\ mpc' = "exited"
    /\ exitCode' = code

Init ==
    /\ argc \in {1, 2}
    /\ pathExists \in BOOLEAN
    /\ nFiles \in 0..MaxFiles
    /\ input \in -1..MaxFiles
    /\ mpc = "args"
    /\ exitCode = -1
    /\ report = "none"
    /\ sinkCreated = FALSE
    /\ handlerSet = FALSE
    /\ altScreen = FALSE
    /\ rawMode = FALSE
    /\ cursorHidden = FALSE
    /\ sessionEntered = FALSE
    /\ teardownCount = 0
    /\ key_event = "none"
    /\ paused = FALSE
    /\ hpc = "idle"
    /\ hpaused = FALSE
    /\ is_paused = FALSE
    /\ nToggles = 0
    /\ overlapped = FALSE
    /\ lastStored = FALSE
    /\ wpc = "unspawned"
    /\ wErr = "none"
    /\ duration = 0
    /\ clock = 0
    /\ wpaused = FALSE
    /\ elapsed = 0
    /\ filled = -1
    /\ sinkPaused = FALSE
    /\ sinkRemaining = 0
    /\ sinkLock = "free"

\* ------------------------------------------------- main: startup (82-136)
\* lines 83-86
MainCheckArgs ==
    /\ mpc = "args"
    /\ IF argc < 2
         THEN /\ report' = "usage"
              /\ Exit(0)
         ELSE /\ mpc' = "path"
              /\ UNCHANGED <<report, exitCode>>
    /\ UNCHANGED <<envVars, termVars, sinkCreated, handlerSet, key_event, paused,
                   handlerVars, flagVars, workerVars, sinkVars, clock>>

\* lines 88-92
MainCheckPath ==
    /\ mpc = "path"
    /\ IF ~pathExists
         THEN /\ report' = "nopath"
              /\ Exit(0)
         ELSE /\ mpc' = "list"
              /\ UNCHANGED <<report, exitCode>>
    /\ UNCHANGED <<envVars, termVars, sinkCreated, handlerSet, key_event, paused,
                   handlerVars, flagVars, workerVars, sinkVars, clock>>

\* lines 94-103 with list_music_files (20-30); entry.unwrap() panics when the
\* directory walk yields an error
MainListFiles ==
    /\ mpc = "list"
    /\ \E walkOk \in BOOLEAN :
         IF ~walkOk
           THEN /\ Exit(101)
                /\ UNCHANGED report
           ELSE IF nFiles = 0
                  THEN /\ report' = "nofiles"
                       /\ Exit(0)
                  ELSE /\ mpc' = "select"
                       /\ UNCHANGED <<report, exitCode>>
    /\ UNCHANGED <<envVars, termVars, sinkCreated, handlerSet, key_event, paused,
                   handlerVars, flagVars, workerVars, sinkVars, clock>>

\* faulty variant of InvalidSelection: off by one, selection = len passes
InvalidSelectionOffByOne(selection, len) == selection > len

\* line 110: the selection is rejected
InvalidSelection(selection, len) == selection >= len

\* lines 105-116: read_line may fail (?), parse::<usize> panics on a line
\* that is not a non-negative number
MainReadSelection ==
    /\ mpc = "select"
    /\ \E readOk \in BOOLEAN :
         IF ~readOk
           THEN /\ Exit(1)
                /\ UNCHANGED report
           ELSE IF input < 0
                  THEN /\ Exit(101)
                       /\ UNCHANGED report
                  ELSE IF InvalidSelection(input, nFiles)
                         THEN /\ report' = "invalid"
                              /\ Exit(0)
                         ELSE /\ mpc' = "audio"
                              /\ UNCHANGED <<report, exitCode>>
    /\ UNCHANGED <<envVars, termVars, sinkCreated, handlerSet, key_event, paused,
                   handlerVars, flagVars, workerVars, sinkVars, clock>>

\* lines 118-120: the flag starts false; opening the output stream or
\* creating the sink may fail (?)
MainOpenAudio ==
    /\ mpc = "audio"
    /\ \E ok \in BOOLEAN :
         IF ok
           THEN /\ sinkCreated' = TRUE
                /\ mpc' = "handler"
                /\ UNCHANGED exitCode
           ELSE /\ Exit(1)
                /\ UNCHANGED sinkCreated
    /\ UNCHANGED <<envVars, termVars, report, handlerSet, key_event, paused,
                   handlerVars, flagVars, workerVars, sinkVars, clock>>

\* lines 123-129: set_handler(..).expect(..)
MainSetHandler ==
    /\ mpc = "handler"
    /\ \E ok \in BOOLEAN :
         IF ok
           THEN /\ handlerSet' = TRUE
                /\ mpc' = "spawn"
                /\ UNCHANGED exitCode
           ELSE /\ Exit(101)
                /\ UNCHANGED handlerSet
    /\ UNCHANGED <<envVars, termVars, report, sinkCreated, key_event, paused,
                   handlerVars, flagVars, workerVars, sinkVars, clock>>

\* lines 131-136: thread::spawn, the JoinHandle is dropped
MainSpawn ==
    /\ mpc = "spawn"
    /\ mpc' = "enter_alt"
    /\ wpc' = "open"
    /\ UNCHANGED <<envVars, termVars, exitCode, report, sinkCreated, handlerSet,
                   key_event, paused, handlerVars, flagVars, wErr, duration,
                   wpaused, elapsed, filled, sinkVars, clock>>

\* ------------------------------------------ main: terminal setup (139-141)
\* line 139: execute!(io::stdout(), EnterAlternateScreen)?
MainEnterAlternateScreen ==
    /\ mpc = "enter_alt"
    /\ \E ok \in BOOLEAN :
         IF ok
           THEN /\ altScreen' = TRUE
                /\ mpc' = "enable_raw"
                /\ UNCHANGED exitCode
           ELSE /\ Exit(1)
                /\ UNCHANGED altScreen
    /\ UNCHANGED <<envVars, rawMode, cursorHidden, sessionEntered, teardownCount,
                   report, sinkCreated, handlerSet, key_event, paused,
                   handlerVars, flagVars, workerVars, sinkVars, clock>>

\* line 140: terminal::enable_raw_mode()?
MainEnableRawMode ==
    /\ mpc = "enable_raw"
    /\ \E ok \in BOOLEAN :
         IF ok
           THEN /\ rawMode' = TRUE
                /\ mpc' = "hide"
                /\ UNCHANGED exitCode
           ELSE /\ Exit(1)
                /\ UNCHANGED rawMode
    /\ UNCHANGED <<envVars, altScreen, cursorHidden, sessionEntered, teardownCount,
                   report, sinkCreated, handlerSet, key_event, paused,
                   handlerVars, flagVars, workerVars, sinkVars, clock>>

\* line 141: execute!(io::stdout(), cursor::Hide)?
MainHideCursor ==
    /\ mpc = "hide"
    /\ \E ok \in BOOLEAN :
         IF ok
           THEN /\ cursorHidden' = TRUE
                /\ sessionEntered' = TRUE
                /\ mpc' = "poll"
                /\ UNCHANGED exitCode
           ELSE /\ Exit(1)
                /\ UNCHANGED <<cursorHidden, sessionEntered>>
    /\ UNCHANGED <<envVars, altScreen, rawMode, teardownCount,
                   report, sinkCreated, handlerSet, key_event, paused,
                   handlerVars, flagVars, workerVars, sinkVars, clock>>

\* -------------------------------------------- main: control loop (144-157)
\* positions of main inside the loop (the RUNNING state)
Running == {"poll", "read", "match", "store"}

\* line 145: event::poll(100 ms) returns Ok(false)
MainPollTimeout ==
    /\ mpc = "poll"
    /\ UNCHANGED vars

\* line 145: event::poll(..)? returns Err: main returns it
MainPollError ==
    /\ mpc = "poll"
    /\ Exit(1)
    /\ UNCHANGED <<envVars, termVars, report, sinkCreated, handlerSet, key_event,
                   paused, handlerVars, flagVars, workerVars, sinkVars, clock>>

\* line 145: event::poll(..) returns Ok(true)
MainPollReady ==
    /\ mpc = "poll"
    /\ mpc' = "read"
    /\ UNCHANGED <<envVars, termVars, exitCode, report, sinkCreated, handlerSet,
                   key_event, paused, handlerVars, flagVars, workerVars, sinkVars,
                   clock>>

\* line 146: event::read()? returns Err: main returns it
MainReadError ==
    /\ mpc = "read"
    /\ Exit(1)
    /\ UNCHANGED <<envVars, termVars, report, sinkCreated, handlerSet, key_event,
                   paused, handlerVars, flagVars, workerVars, sinkVars, clock>>

\* line 146: the event read is not Event::Key (resize, mouse, ...)
MainReadOtherEvent ==
    /\ mpc = "read"
    /\ mpc' = "poll"
    /\ UNCHANGED <<envVars, termVars, exitCode, report, sinkCreated, handlerSet,
                   key_event, paused, handlerVars, flagVars, workerVars, sinkVars,
                   clock>>

\* line 146: a key event is read; pause keys are limited by MaxToggles
MainReadKey ==
    /\ mpc = "read"
    /\ \E code \in {"p", "Esc", "other"} :
         /\ code = "p" => Started < MaxToggles
         /\ key_event' = code
    /\ mpc' = "match"
    /\ UNCHANGED <<envVars, termVars, exitCode, report, sinkCreated, handlerSet,
                   paused, handlerVars, flagVars, workerVars, sinkVars, clock>>

\* lines 148-149: KeyCode::Char('p'): is_paused.load(SeqCst)
MainPauseKeyLoad ==
    /\ mpc = "match"
    /\ key_event = "p"
    /\ paused' = is_paused
    /\ overlapped' = (overlapped \/ hpc = "loaded")
    /\ mpc' = "store"
    /\ UNCHANGED <<envVars, termVars, exitCode, report, sinkCreated, handlerSet,
                   key_event, handlerVars, is_paused, nToggles, lastStored,
                   workerVars, sinkVars, clock>>

\* faulty variant of MainPauseKeyStore: the value loaded is stored back
MainPauseKeyStoreKeeps ==
    /\ mpc = "store"
    /\ is_paused' = paused
    /\ lastStored' = paused
    /\ nToggles' = nToggles + 1
    /\ paused' = FALSE
    /\ key_event' = "none"
    /\ mpc' = "poll"
    /\ UNCHANGED <<envVars, termVars, exitCode, report, sinkCreated, handlerSet,
                   handlerVars, overlapped, workerVars, sinkVars, clock>>

\* line 150: is_paused.store(!paused, SeqCst); the iteration ends
MainPauseKeyStore ==
    /\ mpc = "store"
    /\ is_paused' = Negated(paused)
    /\ lastStored' = Negated(paused)
    /\ nToggles' = nToggles + 1
    /\ paused' = FALSE
    /\ key_event' = "none"
    /\ mpc' = "poll"
    /\ UNCHANGED <<envVars, termVars, exitCode, report, sinkCreated, handlerSet,
                   handlerVars, overlapped, workerVars, sinkVars, clock>>

\* faulty variant of MainQuitKey: main joins the worker before it leaves
MainQuitKeyJoins ==
    /\ mpc = "match"
    /\ key_event = "Esc"
    /\ wpc \in {"done", "panicked"}
    /\ key_event' = "none"
    /\ mpc' = "disable_raw"
    /\ UNCHANGED <<envVars, termVars, exitCode, report, sinkCreated, handlerSet,
                   paused, handlerVars, flagVars, workerVars, sinkVars, clock>>

\* line 152: KeyCode::Esc => break
MainQuitKey ==
    /\ mpc = "match"
    /\ key_event = "Esc"
    /\ key_event' = "none"
    /\ mpc' = "disable_raw"
    /\ UNCHANGED <<envVars, termVars, exitCode, report, sinkCreated, handlerSet,
                   paused, handlerVars, flagVars, workerVars, sinkVars, clock>>

\* faulty variant of MainOtherKey: any other key breaks out of the loop
MainOtherKeyBreaks ==
    /\ mpc = "match"
    /\ key_event = "other"
    /\ key_event' = "none"
    /\ mpc' = "disable_raw"
    /\ UNCHANGED <<envVars, termVars, exitCode, report, sinkCreated, handlerSet,
                   paused, handlerVars, flagVars, workerVars, sinkVars, clock>>

\* line 153: _ => {}
MainOtherKey ==
    /\ mpc = "match"
    /\ key_event = "other"
    /\ key_event' = "none"
    /\ mpc' = "poll"
    /\ UNCHANGED <<envVars, termVars, exitCode, report, sinkCreated, handlerSet,
                   paused, handlerVars, flagVars, workerVars, sinkVars, clock>>

\* --------------------------------------------- main: cleanup (160-164)
\* line 160: terminal::disable_raw_mode()?
MainDisableRawMode ==
    /\ mpc = "disable_raw"
    /\ \E ok \in BOOLEAN :
         IF ok
           THEN /\ rawMode' = FALSE
                /\ mpc' = "leave_alt"
                /\ UNCHANGED exitCode
           ELSE /\ Exit(1)
                /\ UNCHANGED rawMode
    /\ UNCHANGED <<envVars, altScreen, cursorHidden, sessionEntered, teardownCount,
                   report, sinkCreated, handlerSet, key_event, paused,
                   handlerVars, flagVars, workerVars, sinkVars, clock>>

\* line 161: execute!(io::stdout(), LeaveAlternateScreen)?
MainLeaveAlternateScreen ==
    /\ mpc = "leave_alt"
    /\ \E ok \in BOOLEAN :
         IF ok
           THEN /\ altScreen' = FALSE
                /\ mpc' = "show"
                /\ UNCHANGED exitCode
           ELSE /\ Exit(1)
                /\ UNCHANGED altScreen
    /\ UNCHANGED <<envVars, rawMode, cursorHidden, sessionEntered, teardownCount,
                   report, sinkCreated, handlerSet, key_event, paused,
                   handlerVars, flagVars, workerVars, sinkVars, clock>>

\* lines 162-164: execute!(io::stdout(), cursor::Show)?; println!; Ok(())
MainShowCursor ==
    /\ mpc = "show"
    /\ \E ok \in BOOLEAN :
         IF ok
           THEN /\ cursorHidden' = FALSE
                /\ teardownCount' = teardownCount + 1
                /\ Exit(0)
           ELSE /\ Exit(1)
                /\ UNCHANGED <<cursorHidden, teardownCount>>
    /\ UNCHANGED <<envVars, altScreen, rawMode, sessionEntered,
                   report, sinkCreated, handlerSet, key_event, paused,
                   handlerVars, flagVars, workerVars, sinkVars, clock>>

\* ------------------------------------- ctrlc handler thread (125-128)
\* line 126: an interrupt is delivered; let paused = is_paused.load(SeqCst)
HandlerLoad ==
    /\ Alive
    /\ handlerSet
    /\ hpc = "idle"
    /\ Started < MaxToggles
    /\ hpaused' = is_paused
    /\ overlapped' = (overlapped \/ mpc = "store")
    /\ hpc' = "loaded"
    /\ UNCHANGED <<envVars, termVars, mainVars, is_paused, nToggles, lastStored,
                   workerVars, sinkVars, clock>>

\* faulty variant of HandlerStore: the interrupt always pauses
HandlerStorePauses ==
    /\ Alive
    /\ hpc = "loaded"
    /\ is_paused' = TRUE
    /\ lastStored' = TRUE
    /\ nToggles' = nToggles + 1
    /\ hpaused' = FALSE
    /\ hpc' = "idle"
    /\ UNCHANGED <<envVars, termVars, mainVars, overlapped, workerVars, sinkVars,
                   clock>>

\* line 127: is_paused.store(!paused, SeqCst); the handler returns
HandlerStore ==
    /\ Alive
    /\ hpc = "loaded"
    /\ is_paused' = Negated(hpaused)
    /\ lastStored' = Negated(hpaused)
    /\ nToggles' = nToggles + 1
    /\ hpaused' = FALSE
    /\ hpc' = "idle"
    /\ UNCHANGED <<envVars, termVars, mainVars, overlapped, workerVars, sinkVars,
                   clock>>

\* ------------------------------------------ worker: play_music (32-63)
\* the worker panics (.expect at line 135, or a panic inside play_music);
\* the panic unwinds the worker thread only
WorkerPanic(why) ==
    /\ wpc' = "panicked"
    /\ wErr' = why

\* line 33: fs::File::open(file_path)?
WorkerOpen ==
    /\ Alive
    /\ wpc = "open"
    /\ \E ok \in BOOLEAN :
         IF ok
           THEN /\ wpc' = "decode"
                /\ UNCHANGED wErr
           ELSE WorkerPanic("open")
    /\ UNCHANGED <<envVars, termVars, mainVars, handlerVars, flagVars, duration,
                   wpaused, elapsed, filled, sinkVars, clock>>

\* line 34: Decoder::new(BufReader::new(file))?
WorkerDecode ==
    /\ Alive
    /\ wpc = "decode"
    /\ \E ok \in BOOLEAN :
         IF ok
           THEN /\ wpc' = "append"
                /\ UNCHANGED wErr
           ELSE WorkerPanic("decode")
    /\ UNCHANGED <<envVars, termVars, mainVars, handlerVars, flagVars, duration,
                   wpaused, elapsed, filled, sinkVars, clock>>

\* faulty variant of WorkerAppend: the guard of the sink's lock is kept
WorkerAppendKeepsLock ==
    /\ Alive
    /\ wpc = "append"
    /\ sinkLock = "free"
    /\ sinkLock' = "worker"
    /\ \E len \in 0..MaxDur, known \in BOOLEAN :
         /\ duration' = IF known THEN len ELSE 0
         /\ sinkRemaining' = len
    /\ wpc' = "load"
    /\ UNCHANGED <<envVars, termVars, mainVars, handlerVars, flagVars, wErr,
                   wpaused, elapsed, filled, sinkPaused, clock>>

\* lines 35-37: the track holds len units of audio; total_duration() is
\* Some(len) or None (then zero); start_time is taken; the source is appended
\* under the sink's lock, whose guard is dropped at the end of the statement
WorkerAppend ==
    /\ Alive
    /\ wpc = "append"
    /\ sinkLock = "free"
    /\ sinkLock' = "free"
    /\ \E len \in 0..MaxDur, known \in BOOLEAN :
         /\ duration' = IF known THEN len ELSE 0
         /\ sinkRemaining' = len
    /\ wpc' = "load"
    /\ UNCHANGED <<envVars, termVars, mainVars, handlerVars, flagVars, wErr,
                   wpaused, elapsed, filled, sinkPaused, clock>>

\* faulty variant of WorkerLoad: the worker consumes the flag (swap(false))
WorkerLoadSwaps ==
    /\ Alive
    /\ wpc = "load"
    /\ wpaused' = is_paused
    /\ is_paused' = FALSE
    /\ wpc' = "apply"
    /\ UNCHANGED <<envVars, termVars, mainVars, handlerVars, nToggles, overlapped,
                   lastStored, wErr, duration, elapsed, filled, sinkVars, clock>>

\* line 41: is_paused.load(SeqCst)
WorkerLoad ==
    /\ Alive
    /\ wpc = "load"
    /\ wpaused' = is_paused
    /\ wpc' = "apply"
    /\ UNCHANGED <<envVars, termVars, mainVars, handlerVars, flagVars, wErr,
                   duration, elapsed, filled, sinkVars, clock>>

\* faulty variant of WorkerApply: the two branches are swapped
WorkerApplyInverted ==
    /\ Alive
    /\ wpc = "apply"
    /\ sinkLock = "free"
    /\ sinkLock' = "free"
    /\ sinkPaused' = ~wpaused
    /\ wpc' = "progress"
    /\ UNCHANGED <<envVars, termVars, mainVars, handlerVars, flagVars, wErr,
                   duration, wpaused, elapsed, filled, sinkRemaining, clock>>

\* lines 42 and 44: sink.lock().unwrap().pause() or .play(); lock() waits
\* for the Mutex and the guard is dropped at the end of the statement
WorkerApply ==
    /\ Alive
    /\ wpc = "apply"
    /\ sinkLock = "free"
    /\ sinkLock' = "free"
    /\ sinkPaused' = wpaused
    /\ wpc' = "progress"
    /\ UNCHANGED <<envVars, termVars, mainVars, handlerVars, flagVars, wErr,
                   duration, wpaused, elapsed, filled, sinkRemaining, clock>>

\* faulty variant of WorkerProgress: no test of total > 0; with total = 0
\* the ratio is NaN (0 cells) for a sample of 0 and infinite otherwise
WorkerProgressUnguarded ==
    /\ Alive
    /\ wpc = "progress"
    /\ elapsed' = as_secs(clock)
    /\ LET total == as_secs(duration)
           cells == IF total > 0 THEN rendered_length[total][as_secs(clock)]
                    ELSE IF as_secs(clock) = 0 THEN 0 ELSE bar_length + 1
       IN  IF cells > bar_length
             THEN /\ WorkerPanic("render")
                  /\ UNCHANGED filled
             ELSE /\ filled' = cells
                  /\ wpc' = "sleep"
                  /\ UNCHANGED wErr
    /\ UNCHANGED <<envVars, termVars, mainVars, handlerVars, flagVars, duration,
                   wpaused, sinkVars, clock>>

\* lines 48-53 with print_progress_bar (65-79): the elapsed sample is taken;
\* with total > 0 the bar is rendered; bar_length - filled_length underflows
\* (usize) when filled_length > bar_length, and the worker panics
WorkerProgress ==
    /\ Alive
    /\ wpc = "progress"
    /\ elapsed' = as_secs(clock)
    /\ LET total == as_secs(duration) IN
         IF total > 0
           THEN IF rendered_length[total][as_secs(clock)] > bar_length
                  THEN /\ WorkerPanic("render")
                       /\ UNCHANGED filled
                  ELSE /\ filled' = rendered_length[total][as_secs(clock)]
                       /\ wpc' = "sleep"
                       /\ UNCHANGED wErr
           ELSE /\ wpc' = "sleep"
                /\ UNCHANGED <<wErr, filled>>
    /\ UNCHANGED <<envVars, termVars, mainVars, handlerVars, flagVars, duration,
                   wpaused, sinkVars, clock>>

\* line 55: thread::sleep(100 ms) returns
WorkerSleep ==
    /\ Alive
    /\ wpc = "sleep"
    /\ wpc' = "check"
    /\ UNCHANGED <<envVars, termVars, mainVars, handlerVars, flagVars, wErr,
                   duration, wpaused, elapsed, filled, sinkVars, clock>>

\* line 57: the loop ends on this comparison
TrackOver(e, total) == e >= total

\* lines 57-62: if elapsed >= total { break } ... Ok(())
WorkerCheck ==
    /\ Alive
    /\ wpc = "check"
    /\ wpc' = IF TrackOver(elapsed, as_secs(duration)) THEN "done" ELSE "load"
    /\ UNCHANGED <<envVars, termVars, mainVars, handlerVars, flagVars, wErr,
                   duration, wpaused, elapsed, filled, sinkVars, clock>>

\* ---------------------------------------------------------------- time
\* one clock unit passes after start_time was taken; the sink plays the
\* appended source unless it is paused
Tick ==
    /\ Alive
    /\ wpc \notin {"unspawned", "open", "decode", "append"}
    /\ clock < MaxTime
    /\ clock' = clock + 1
    /\ sinkRemaining' = IF ~sinkPaused /\ sinkRemaining > 0
                          THEN sinkRemaining - 1
                          ELSE sinkRemaining
    /\ UNCHANGED <<envVars, termVars, mainVars, handlerVars, flagVars,
                   workerVars, sinkPaused, sinkLock>>

Next ==
    \/ MainCheckArgs
    \/ MainCheckPath
    \/ MainListFiles
    \/ MainReadSelection
    \/ MainOpenAudio
    \/ MainSetHandler
    \/ MainSpawn
    \/ MainEnterAlternateScreen
    \/ MainEnableRawMode
    \/ MainHideCursor
    \/ MainPollTimeout
    \/ MainPollError
    \/ MainPollReady
    \/ MainReadError
    \/ MainReadOtherEvent
    \/ MainReadKey
    \/ MainPauseKeyLoad
    \/ MainPauseKeyStore
    \/ MainQuitKey
    \/ MainOtherKey
    \/ MainDisableRawMode
    \/ MainLeaveAlternateScreen
    \/ MainShowCursor
    \/ HandlerLoad
    \/ HandlerStore
    \/ WorkerOpen
    \/ WorkerDecode
    \/ WorkerAppend
    \/ WorkerLoad
    \/ WorkerApply
    \/ WorkerProgress
    \/ WorkerSleep
    \/ WorkerCheck
    \/ Tick

Spec == Init /\ [][Next]_vars

\* ------------------------------------------- progress bar over long tracks
\* play_music in its loop on a track of 1..MaxTotal whole seconds, just
\* after line 37, with main polling in the control loop and nobody toggling:
\* the renders of lines 48-53 for every elapsed sample up to the total
BarInit ==
    /\ argc = 2
    /\ pathExists = TRUE
    /\ nFiles = 1
    /\ input = 0
    /\ mpc = "poll"
    /\ exitCode = -1
    /\ report = "none"
    /\ sinkCreated = TRUE
    /\ handlerSet = TRUE
    /\ altScreen = TRUE
    /\ rawMode = TRUE
    /\ cursorHidden = TRUE
    /\ sessionEntered = TRUE
    /\ teardownCount = 0
    /\ key_event = "none"
    /\ paused = FALSE
    /\ hpc = "idle"
    /\ hpaused = FALSE
    /\ is_paused = FALSE
    /\ nToggles = 0
    /\ overlapped = FALSE
    /\ lastStored = FALSE
    /\ wpc = "load"
    /\ wErr = "none"
    /\ \E total \in 1..MaxTotal : duration = total * UnitsPerSec
    /\ clock = 0
    /\ wpaused = FALSE
    /\ elapsed = 0
    /\ filled = -1
    /\ sinkPaused = FALSE
    /\ sinkRemaining = duration
    /\ sinkLock = "free"

\* one clock unit passes, up to the end of the track
BarTick ==
    /\ clock < duration
    /\ clock' = clock + 1
    /\ sinkRemaining' = IF ~sinkPaused /\ sinkRemaining > 0
                          THEN sinkRemaining - 1
                          ELSE sinkRemaining
    /\ UNCHANGED <<envVars, termVars, mainVars, handlerVars, flagVars,
                   workerVars, sinkPaused, sinkLock>>

BarNext ==
    \/ WorkerLoad
    \/ WorkerApply
    \/ WorkerProgress
    \/ WorkerSleep
    \/ WorkerCheck
    \/ BarTick

BarSpec == BarInit /\ [][BarNext]_vars

TypeOK ==
    /\ argc \in {1, 2}
    /\ pathExists \in BOOLEAN
    /\ nFiles \in 0..MaxFiles
    /\ input \in -1..MaxFiles
    /\ mpc \in {"args", "path", "list", "select", "audio", "handler", "spawn",
                "enter_alt", "enable_raw", "hide", "poll", "read", "match",
                "store", "disable_raw", "leave_alt", "show", "exited"}
    /\ exitCode \in {-1, 0, 1, 101}
    /\ report \in {"none", "usage", "nopath", "nofiles", "invalid"}
    /\ key_event \in {"none", "p", "Esc", "other"}
    /\ hpc \in {"idle", "loaded"}
    /\ wpc \in {"unspawned", "open", "decode", "append", "load", "apply",
                "progress", "sleep", "check", "done", "panicked"}
    /\ wErr \in {"none", "open", "decode", "render"}
    /\ nToggles \in 0..MaxToggles
    /\ duration \in 0..MaxDur
    /\ clock \in 0..MaxTime
    /\ elapsed \in 0..as_secs(MaxTime)
    /\ filled \in -1..bar_length
    /\ sinkRemaining \in 0..MaxDur
    /\ sinkLock \in {"free", "worker"}
    /\ teardownCount \in 0..1

\* =================================================================
\* Properties
\* =================================================================
\* the flag's initial value (false) flipped n times
Flipped(n) == (n % 2 = 1)

\* no toggle is between its load and its store
NoToggleInFlight == mpc # "store" /\ hpc # "loaded"

\* C1: no toggle is lost under concurrency: whenever n toggles (pause key
\* and interrupt handler, in any interleaving) have completed and none is
\* in flight, the pause flag is its initial value flipped n times.
C1_NoLostToggle ==
    NoToggleInFlight => (is_paused = Flipped(nToggles))

\* C2: once the terminal session was entered, the process never ends
\* without the teardown sequence having run exactly once (raw mode off,
\* alternate screen left, cursor shown), whichever way the loop was left.
C2_TeardownOnEveryExit ==
    (sessionEntered /\ mpc = "exited") =>
        /\ teardownCount = 1
        /\ ~rawMode
        /\ ~altScreen
        /\ ~cursorHidden

\* C3 as stated: a step that takes main out of the control loop is taken
\* only with the quit key (Esc) read in that iteration.
C3_OnlyQuitKeyEndsLoop ==
    [][(mpc \in Running /\ mpc' \notin Running) => key_event = "Esc"]_vars

\* C3: a step that takes main out of the control loop is either the quit
\* key's break (Esc read, on to cleanup) or the return of an error from
\* event::poll / event::read; no other key, no timeout, no step of the
\* worker (end of track, failure) and no interrupt ends the loop.
C3_LoopEndsOnQuitOrEventError ==
    [][(mpc \in Running /\ mpc' \notin Running) =>
          \/ /\ mpc = "match"
             /\ key_event = "Esc"
             /\ mpc' = "disable_raw"
          \/ /\ mpc \in {"poll", "read"}
             /\ mpc' = "exited"
             /\ exitCode' = 1]_vars

\* the loop was left through the quit key while the worker had already
\* finished or failed (neither of which ended it)
C3_Witness ==
    /\ mpc = "disable_raw"
    /\ wpc \in {"done", "panicked"}

\* C4: after the worker has applied the flag in a tick, and until the end
\* of that tick, the sink's paused status is the value the worker read in
\* that tick, whatever toggles happened in between.
C4_SinkFollowsRead ==
    wpc \in {"progress", "sleep", "check"} => sinkPaused = wpaused

\* the sink was paused by this tick's read although the flag has since
\* been toggled back: the later toggle waits for the next tick
C4_Witness ==
    /\ wpc = "check"
    /\ sinkPaused
    /\ ~is_paused
    /\ nToggles >= 2

\* C5: for a track whose total is at least one whole second, the worker's
\* loop is not left while the sampled elapsed seconds are below the total,
\* and it is left by returning Ok (never by a panic of the progress
\* rendering), whatever the schedule of the worker's ticks.
C5_ExitsAtTotalWithOk ==
    as_secs(duration) > 0 =>
        /\ wpc = "done" => elapsed >= as_secs(duration)
        /\ wErr # "render"

\* C6: with a total duration of zero (or unknown, treated as zero) the
\* worker's loop is not left before the sink has played the whole source.
C6_ZeroDurationExitsAtExhaustion ==
    (duration = 0 /\ wpc = "done") => sinkRemaining = 0

\* C7: after the worker failed to open or decode the file, the control
\* loop is not running: the failure ends the process.
C7_WorkerFailureIsFatal ==
    wErr \in {"open", "decode"} => mpc \notin Running

\* C8: as long as no toggle began while another was in flight, the flag
\* is its initial value flipped once per completed toggle: unchanged after
\* an even number of toggles, negated after an odd number.
C8_SequentialToggles ==
    ~overlapped => (is_paused = Flipped(nToggles))

\* three toggles in sequence, by both contexts or one, left the flag negated
C8_Witness ==
    /\ ~overlapped
    /\ nToggles = 3
    /\ is_paused

\* C9: every value read from the flag (by main, the handler, the worker)
\* is a boolean, and the flag holds the value written by the toggle that
\* stored last, for every interleaving of the two toggling contexts.
C9_LastStoreWins ==
    /\ is_paused \in BOOLEAN
    /\ paused \in BOOLEAN
    /\ hpaused \in BOOLEAN
    /\ wpaused \in BOOLEAN
    /\ nToggles > 0 => is_paused = lastStored

\* two toggles overlapped (one update was lost) and all have completed
C9_Witness ==
    /\ overlapped
    /\ NoToggleInFlight
    /\ nToggles >= 2
    /\ is_paused = lastStored

\* nothing of the playback context exists
NoPlaybackContext ==
    /\ ~sinkCreated
    /\ ~handlerSet
    /\ wpc = "unspawned"
    /\ ~altScreen
    /\ ~rawMode
    /\ ~cursorHidden
    /\ ~sessionEntered

\* the inputs are ones the startup validation rejects
Rejected ==
    \/ argc < 2
    \/ ~pathExists
    \/ nFiles = 0
    \/ input >= nFiles

\* C10: a reported startup rejection ends the process with Ok(()) and no
\* playback context; and rejected inputs (missing argument, nonexistent
\* path, no files, selection >= number of files) never get past the
\* validation, whose success return always comes with a report.
C10_RejectionStartsNothing ==
    /\ report # "none" =>
          /\ mpc = "exited"
          /\ exitCode = 0
          /\ NoPlaybackContext
    /\ Rejected =>
          /\ mpc \in {"args", "path", "list", "select", "exited"}
          /\ NoPlaybackContext
          /\ (mpc = "exited" /\ exitCode = 0) => report # "none"
    /\ report = "usage" => argc < 2
    /\ report = "nopath" => ~pathExists
    /\ report = "nofiles" => nFiles = 0
    /\ report = "invalid" => input >= nFiles

\* an out-of-range selection was rejected
C10_Witness ==
    /\ report = "invalid"
    /\ mpc = "exited"
    /\ nFiles > 0
    /\ input >= nFiles

\* C11: every bar rendered shows floor(50 * elapsed / total) filled cells,
\* and one more second of elapsed time never shows fewer cells (total > 0,
\* 0 <= elapsed <= total, whole seconds).
C11_FilledIsFloor ==
    filled # -1 =>
        LET total == as_secs(duration) IN
          /\ filled = (bar_length * elapsed) \div total
          /\ elapsed < total => filled <= filled_length(elapsed + 1, total)

\* C12: the interrupt handler is registered once, while no worker exists
\* yet, and stays registered; the worker only ever runs with the handler
\* registered; and an invocation changes the flag as a pause key press
\* does: it loads the flag without changing it, then stores the negation
\* of what it loaded, as one completed toggle.
C12_HandlerOnceBeforeWorker ==
    [][/\ handlerSet => handlerSet'
       /\ (~handlerSet /\ handlerSet') =>
             (mpc = "handler" /\ wpc = "unspawned" /\ wpc' = "unspawned")
       /\ handlerSet => mpc' # "handler"
       /\ wpc' # "unspawned" => handlerSet'
       /\ (hpc = "idle" /\ hpc' = "loaded") =>
             (hpaused' = is_paused /\ is_paused' = is_paused)
       /\ (mpc = "match" /\ mpc' = "store") =>
             (paused' = is_paused /\ is_paused' = is_paused)
       /\ (hpc = "loaded" /\ hpc' = "idle") =>
             (is_paused' = ~hpaused /\ nToggles' = nToggles + 1)
       /\ (mpc = "store" /\ mpc' = "poll") =>
             (is_paused' = ~paused /\ nToggles' = nToggles + 1)]_vars

\* an invocation of the handler is under way after the worker was spawned,
\* on a flag that an earlier toggle had set
C12_Witness ==
    /\ hpc = "loaded"
    /\ hpaused
    /\ wpc # "unspawned"

\* C13: the worker does not leave its loop while the sink holds unplayed
\* audio (track of a known, whole number of seconds, at least one), also
\* when playback was paused for part of the time since start.
C13_LoopOutlivesAudio ==
    (wpc = "done" /\ duration > 0 /\ duration % UnitsPerSec = 0) =>
        sinkRemaining = 0

\* C14: the process never ends with raw mode on, the alternate screen
\* active or the cursor hidden, whichever setup or cleanup step failed.
C14_TerminalRestoredAtExit ==
    mpc = "exited" => (~rawMode /\ ~altScreen /\ ~cursorHidden)

\* the worker's loop positions
WorkerLoop == {"load", "apply", "progress", "sleep", "check"}

\* main can take its next step after the quit key, in every state of the
\* worker
QuitPathEnabled ==
    /\ (mpc = "match" /\ key_event = "Esc") => ENABLED MainQuitKey
    /\ mpc = "disable_raw" => ENABLED MainDisableRawMode
    /\ mpc = "leave_alt" => ENABLED MainLeaveAlternateScreen
    /\ mpc = "show" => ENABLED MainShowCursor

\* C15: once Esc is read, main can always go on (quit, the cleanup steps,
\* exit) whatever the worker's state; the quit step goes to cleanup and the
\* cleanup steps only go forward to the exit; none of these steps changes
\* anything of the worker or the sink.
C15_QuitIgnoresWorker ==
    /\ []QuitPathEnabled
    /\ [][/\ (mpc = "match" /\ key_event = "Esc" /\ mpc' # mpc) =>
               mpc' = "disable_raw"
          /\ (mpc = "disable_raw" /\ mpc' # mpc) =>
               mpc' \in {"leave_alt", "exited"}
          /\ (mpc = "leave_alt" /\ mpc' # mpc) => mpc' \in {"show", "exited"}
          /\ (mpc = "show" /\ mpc' # mpc) => mpc' = "exited"
          /\ ((\/ (mpc = "match" /\ key_event = "Esc")
               \/ mpc \in {"disable_raw", "leave_alt", "show"}) /\ mpc' # mpc)
                => UNCHANGED <<workerVars, sinkVars, clock, is_paused>>]_vars

\* the process ended through quit and a full cleanup while the worker was
\* still in its loop
C15_Witness ==
    /\ mpc = "exited"
    /\ exitCode = 0
    /\ teardownCount = 1
    /\ wpc \in WorkerLoop

\* C16: a pause key event loads the flag and then stores the negation of
\* what it loaded, which is the flag flipped unless a toggle of the
\* handler came in between, and the loop goes on; the quit key leaves the
\* flag unchanged; any other key event, a non-key event and a poll result
\* leave the flag unchanged and main in the loop.
C16_KeyDispatch ==
    [][/\ (mpc = "match" /\ key_event = "p" /\ mpc' # mpc) =>
             (mpc' = "store" /\ paused' = is_paused /\ is_paused' = is_paused)
       /\ (mpc = "store" /\ mpc' # mpc) =>
             /\ mpc' = "poll"
             /\ is_paused' = ~paused
             /\ nToggles' = nToggles + 1
             /\ paused = is_paused => is_paused' = ~is_paused
       /\ (mpc = "match" /\ key_event = "Esc" /\ mpc' # mpc) =>
             (is_paused' = is_paused /\ nToggles' = nToggles)
       /\ (mpc = "match" /\ key_event = "other" /\ mpc' # mpc) =>
             (mpc' = "poll" /\ is_paused' = is_paused /\ nToggles' = nToggles)
       /\ (mpc = "read" /\ mpc' \in Running /\ mpc' # mpc) =>
             (is_paused' = is_paused /\ nToggles' = nToggles)
       /\ (mpc = "poll" /\ mpc' \in Running) =>
             (is_paused' = is_paused \/ hpc = "loaded")]_vars

\* a pause key press has been dispatched and is about to flip the flag a
\* second time
C16_Witness ==
    /\ mpc = "store"
    /\ key_event = "p"
    /\ paused = is_paused
    /\ nToggles = 1

\* C17: the sink's lock is free between steps; while the process is alive
\* the worker in its loop can always take its next step, and main in the
\* control loop can always take its next step.
C17_NobodyBlocks ==
    /\ sinkLock = "free"
    /\ (Alive /\ wpc = "load") => ENABLED WorkerLoad
    /\ (Alive /\ wpc = "apply") => ENABLED WorkerApply
    /\ (Alive /\ wpc = "progress") => ENABLED WorkerProgress
    /\ (Alive /\ wpc = "sleep") => ENABLED WorkerSleep
    /\ (Alive /\ wpc = "check") => ENABLED WorkerCheck
    /\ mpc = "poll" => (ENABLED MainPollReady /\ ENABLED MainPollTimeout)
    /\ mpc = "read" => (ENABLED MainReadKey /\ ENABLED MainReadOtherEvent)
    /\ mpc = "match" =>
          ENABLED (MainPauseKeyLoad \/ MainQuitKey \/ MainOtherKey)
    /\ mpc = "store" => ENABLED MainPauseKeyStore

\* the worker has rendered a bar and is in the middle of a later tick, main
\* is in the middle of a pause key press, a toggle of the handler is in
\* flight
C17_Witness ==
    /\ wpc = "apply"
    /\ clock > 0
    /\ filled = 0
    /\ mpc = "store"
    /\ hpc = "loaded"

\* C18: with a total of zero whole seconds no bar is ever rendered.
C18_NoBarForZeroTotal ==
    as_secs(duration) = 0 => filled = -1

\* a track shorter than a second went through a whole tick unrendered
C18_Witness ==
    /\ duration > 0
    /\ as_secs(duration) = 0
    /\ wpc = "done"
    /\ filled = -1

\* C19: the rendering never panics, and every bar rendered was for an
\* elapsed sample not above the total, with 0..bar_length filled cells.
C19_RenderWithinBar ==
    /\ wErr # "render"
    /\ filled # -1 =>
          /\ elapsed <= as_secs(duration)
          /\ filled \in 0..bar_length

====
